---- MODULE Spec2Model ----
(***************************************************************************)
(* Cafe Serenity service worker (src/unnamed/part_000, lines 470-705):     *)
(* the Cache Storage it shares with the host and the fetch listener's      *)
(* three request strategies.  Every `await` of a handler is one step, so   *)
(* concurrently handled requests interleave at exactly the points where    *)
(* the code yields.  The install and activate listeners run on the same    *)
(* storage; `sw` is the worker's lifecycle state.  The page's scripts       *)
(* (src/js/main.js) work on `nav`, the navigation elements and the two     *)
(* objects that control them, and on `form`, the contact form.             *)
(***************************************************************************)
EXTENDS Integers, Sequences, FiniteSets, TLC

VARIABLES caches, handlers, sw, nav, form

vars == <<caches, handlers, sw, nav, form>>

(***************************************************************************)
(* Bounds                                                                  *)
(***************************************************************************)
\* number of fetch events delivered (each gets its own handler)
MaxHandlers == 2

Handlers == 1..MaxHandlers

(***************************************************************************)
(* Program constants                                                       *)
(***************************************************************************)
CACHE_NAME == "cafe-serenity-v1.0.0"

IMAGE_CACHE_NAME == "cafe-serenity-images-v1.0.0"

\* a namespace left by the previous version of the worker
STALE_CACHE_NAME == "cafe-serenity-v0.9.0"

\* the image namespace of the previous version
STALE_IMAGE_CACHE_NAME == "cafe-serenity-images-v0.9.0"

\* a namespace of the same origin written by other code
ForeignCacheName == "workbox-precache-v2"

\* a namespace named like the site, without the hyphen that ends the prefix
BareCacheName == "cafe-serenity"

NamespaceNames ==
    { CACHE_NAME, IMAGE_CACHE_NAME, STALE_CACHE_NAME, STALE_IMAGE_CACHE_NAME,
      ForeignCacheName, BareCacheName }

\* the characters of a namespace name
Chars(name) ==
    CASE name = CACHE_NAME ->
        << "c", "a", "f", "e", "-", "s", "e", "r", "e", "n",
           "i", "t", "y", "-", "v", "1", ".", "0", ".", "0" >>
      [] name = IMAGE_CACHE_NAME ->
        << "c", "a", "f", "e", "-", "s", "e", "r", "e", "n",
           "i", "t", "y", "-", "i", "m", "a", "g", "e", "s",
           "-", "v", "1", ".", "0", ".", "0" >>
      [] name = STALE_CACHE_NAME ->
        << "c", "a", "f", "e", "-", "s", "e", "r", "e", "n",
           "i", "t", "y", "-", "v", "0", ".", "9", ".", "0" >>
      [] name = STALE_IMAGE_CACHE_NAME ->
        << "c", "a", "f", "e", "-", "s", "e", "r", "e", "n",
           "i", "t", "y", "-", "i", "m", "a", "g", "e", "s",
           "-", "v", "0", ".", "9", ".", "0" >>
      [] name = ForeignCacheName ->
        << "w", "o", "r", "k", "b", "o", "x", "-", "p", "r",
           "e", "c", "a", "c", "h", "e", "-", "v", "2" >>
      [] name = BareCacheName ->
        << "c", "a", "f", "e", "-", "s", "e", "r", "e", "n",
           "i", "t", "y" >>

\* the literal 'cafe-serenity-' of the activate listener
SitePrefix ==
    << "c", "a", "f", "e", "-", "s", "e", "r", "e", "n",
           "i", "t", "y", "-" >>

\* String.prototype.startsWith
StartsWith(chars, prefix) ==
    /\ Len(prefix) <= Len(chars)
    /\ SubSeq(chars, 1, Len(prefix)) = prefix

\* location.origin of the worker
SiteOrigin == "https://cafe-serenity.example"

FontOrigin == "https://fonts.googleapis.com"

ImageHostOrigin == "https://images.example.com"

SiteURL(path) == [origin |-> SiteOrigin, path |-> path]

\* new URL(OFFLINE_URL, location): the key caches.match(OFFLINE_URL) looks up
OFFLINE_URL == SiteURL("/offline.html")

AboutURL == SiteURL("/about.html")

MainCssURL == SiteURL("/css/main.css")

HeroURL == SiteURL("/images/hero/hero-main.png")

\* an image of the site that is not pre-cached
MenuPhotoURL == SiteURL("/images/menu/latte.jpg")

FontURL == [origin |-> FontOrigin, path |-> "/css2?family=Noto+Sans+JP"]

ExtImageURL == [origin |-> ImageHostOrigin, path |-> "/photo.jpg"]

\* the entries of STATIC_CACHE_URLS that the requests below can touch
STATIC_CACHE_URLS == <<MainCssURL, OFFLINE_URL, FontURL, HeroURL>>

URLs ==
    {OFFLINE_URL, AboutURL, MainCssURL, HeroURL, MenuPhotoURL, FontURL, ExtImageURL}

(***************************************************************************)
(* Requests.  The pages of the site issue GET requests only (the contact   *)
(* form is submitted in-page, src/js/main.js:376), so a request descriptor *)
(* is its URL; mode and destination select the strategy.                   *)
(***************************************************************************)
Req(url, mode, destination) ==
    [url |-> url, mode |-> mode, destination |-> destination]

NoRequest == Req([origin |-> "", path |-> ""], "", "")

Requests ==
    { Req(AboutURL, "navigate", "document"),
      Req(HeroURL, "no-cors", "image"),
      Req(MainCssURL, "no-cors", "style"),
      Req(MenuPhotoURL, "no-cors", "image"),
      Req(MenuPhotoURL, "cors", ""),
      \* passes both the navigate test and the image test of the listener
      Req(HeroURL, "navigate", "image"),
      Req(FontURL, "no-cors", "style"),
      Req(ExtImageURL, "no-cors", "image") }

(***************************************************************************)
(* Responses.  `by` tells the copies of one resource apart: the handler    *)
(* whose fetch produced it, 0 for the copy pre-cached at install, -1 for   *)
(* the copy the previous version pre-cached, -2 for the copy of the        *)
(* offline page that install fetches separately.                           *)
(***************************************************************************)
Response(status, ctype, body, by) ==
    [status |-> status, ctype |-> ctype, body |-> body, by |-> by]

\* `undefined`: no response
Absent == Response(0, "", "", 0)

\* Response.ok
Ok(r) == r.status >= 200 /\ r.status <= 299

\* what fetch(request) resolves to for handler h
NetworkResponse(url, ok, h) ==
    Response(IF ok THEN 200 ELSE 404, "resource", url.path, h)

Precached(url, by) == Response(200, "resource", url.path, by)

\* new Response('offline text', {status: 503, ...}) of the navigate branch
OfflineTextResponse ==
    Response(503, "text/plain; charset=utf-8", "offline", 0)

\* new Response('<svg ...>', {headers: {'Content-Type': 'image/svg+xml'}})
PlaceholderResponse ==
    Response(200, "image/svg+xml", "svg: image unavailable", 0)

\* new Response('cannot fetch resource', {status: 503, ...}) of the last branch
UnavailableResponse ==
    Response(503, "text/plain; charset=utf-8", "unavailable", 0)

(***************************************************************************)
(* Cache Storage: the namespaces in creation order, each a map from        *)
(* request descriptor to stored response.                                  *)
(***************************************************************************)
EmptyEntries == [u \in URLs |-> Absent]

Namespace(name, entries) == [name |-> name, entries |-> entries]

\* caches.keys()
CacheNames(store) == {store[i].name : i \in 1..Len(store)}

IndexOf(store, name) == CHOOSE i \in 1..Len(store) : store[i].name = name

\* an open that creates a namespace on every call
CachesOpenAlwaysCreates(store, name) ==
    Append(store, Namespace(name, EmptyEntries))

\* caches.open(name): create-if-absent
CachesOpen(store, name) ==
    IF name \in CacheNames(store)
    THEN store
    ELSE Append(store, Namespace(name, EmptyEntries))

\* cache.match(request) on the namespace called name
CacheMatch(store, name, url) ==
    IF name \in CacheNames(store)
    THEN store[IndexOf(store, name)].entries[url]
    ELSE Absent

HitIndexes(store, url) ==
    {i \in 1..Len(store) : store[i].entries[url] # Absent}

FirstHit(store, url) ==
    CHOOSE i \in HitIndexes(store, url) :
        \A j \in HitIndexes(store, url) : i <= j

\* caches.match(request): the first namespace, in creation order, that holds
\* an entry answers
CachesMatch(store, url) ==
    IF HitIndexes(store, url) = {}
    THEN Absent
    ELSE store[FirstHit(store, url)].entries[url]

\* the namespace whose entry caches.match(request) returns ("" on a miss)
CachesMatchSource(store, url) ==
    IF HitIndexes(store, url) = {}
    THEN ""
    ELSE store[FirstHit(store, url)].name

\* caches.delete(name)
CachesDelete(store, name) == SelectSeq(store, LAMBDA ns : ns.name # name)

\* cache.put(request, response): replaces the entry of that descriptor
CachePut(store, name, url, response) ==
    IF name \in CacheNames(store)
    THEN [store EXCEPT ![IndexOf(store, name)].entries[url] = response]
    ELSE store

(***************************************************************************)
(* The cache stores a fetch event can find.                                *)
(***************************************************************************)
ManifestEntries(by) ==
    [u \in URLs |->
        IF \E i \in 1..Len(STATIC_CACHE_URLS) : STATIC_CACHE_URLS[i] = u
        THEN Precached(u, by)
        ELSE Absent]

\* right after install and activation
FreshStore == <<Namespace(CACHE_NAME, ManifestEntries(0))>>

\* an upgrade whose eviction of the previous version failed
UpgradedStore ==
    << Namespace(STALE_CACHE_NAME,
                 [ManifestEntries(-1) EXCEPT ![AboutURL] = Precached(AboutURL, -1)]),
       Namespace(CACHE_NAME, ManifestEntries(0)) >>

\* after an earlier visit: a page and an image were stored by the router
VisitedStore ==
    << Namespace(CACHE_NAME,
                 [ManifestEntries(0) EXCEPT ![AboutURL] = Precached(AboutURL, 0)]),
       Namespace(IMAGE_CACHE_NAME,
                 [EmptyEntries EXCEPT ![HeroURL] = Precached(HeroURL, 0)]) >>

\* the host cleared the origin's cache storage under a running worker
ClearedStore == << >>

InitStores == {FreshStore, UpgradedStore, VisitedStore, ClearedStore}

(***************************************************************************)
(* Request handlers: one per fetch event.                                  *)
(*   pc     where the handler is suspended                                 *)
(*   net    what its fetch(request) resolved to                            *)
(*   resp   what respondWith received                                      *)
(*   calls  the cache and network calls it has issued, in order            *)
(*   hitIn  the namespace whose entry it returned                          *)
(*   put    state of its un-awaited cache.put, into namespace putNs        *)
(***************************************************************************)
IdleHandler ==
    [req |-> NoRequest, pc |-> "idle", net |-> Absent, resp |-> Absent,
     calls |-> << >>, hitIn |-> "", put |-> "none", putNs |-> ""]

(***************************************************************************)
(* The worker's lifecycle.                                                 *)
(*   state         the host's state of the worker                          *)
(*   pc            where the install or activate handler is suspended      *)
(*   skipWaiting   self.skipWaiting() has been called                      *)
(*   manifest      how the fetch of each STATIC_CACHE_URLS entry ended      *)
(*   offline       what the separate fetch of the offline page resolved to *)
(*   offlineError  what the catch around the offline page caught           *)
(*   keys          what caches.keys() resolved to                          *)
(*   deletes       the caches.delete call issued for each name             *)
(*   claim         the clients.claim() call                                *)
(*   notification  the notification shown by the push listener             *)
(*   synced        syncFormData() has run                                  *)
(***************************************************************************)
ManifestIndexes == 1..Len(STATIC_CACHE_URLS)

NewWorker ==
    [state |-> "parsed", pc |-> "idle", skipWaiting |-> FALSE,
     manifest |-> [i \in ManifestIndexes |-> "none"],
     offline |-> Absent, offlineError |-> "none",
     keys |-> << >>,
     deletes |-> [n \in NamespaceNames |-> "none"],
     claim |-> "none", notification |-> "none", synced |-> FALSE]

\* an activated worker the host has started again: no lifecycle handler runs
ActiveWorker == [NewWorker EXCEPT !.state = "activated"]

(***************************************************************************)
(* The page before its scripts run: the navigation as the markup gives it  *)
(* (mobile menu closed, no inline style) and the empty contact form.       *)
(*   innerWidth         window.innerWidth                                  *)
(*   resizeTimer        the debounced resize callback is scheduled         *)
(*   currentBreakpoint  ResponsiveController.currentBreakpoint             *)
(*   isOpen             MobileMenu.isOpen                                  *)
(*   menu, btn, desktopMenu   #mobile-menu, #mobile-menu-btn,              *)
(*                      #desktop-menu: classes, inline style, attributes   *)
(***************************************************************************)
MOBILE_BREAKPOINT == 768

RawNav(width) ==
    [innerWidth |-> width, resizeTimer |-> FALSE,
     currentBreakpoint |-> "", isOpen |-> FALSE,
     menu |-> [hidden |-> TRUE, ariaHidden |-> "true"],
     btn |-> [hidden |-> FALSE, mdHidden |-> TRUE, display |-> "",
              visibility |-> "", opacity |-> "",
              ariaExpanded |-> "false", icon |-> "fa-bars"],
     desktopMenu |-> [hidden |-> TRUE, mdFlex |-> TRUE, display |-> "",
                      visibility |-> "", opacity |-> ""]]

\* the fields of #contact-form: input, textarea
Fields == {"name", "email", "message"}

\* label of the submit button in the markup
OriginalLabel == "submit"

\*   value      field.value, as characters
\*   error      text of the field's .error-message ("" when there is none)
\*   border     the field carries the class border-red-500
\*   disabled, label, classes   the submit button
\*   submits    the running handleSubmit calls, with their originalText
\*   timers     the pending setTimeout callbacks, in the order they are due
RawForm ==
    [value |-> [f \in Fields |-> << >>],
     required |-> Fields,
     error |-> [f \in Fields |-> ""],
     border |-> [f \in Fields |-> FALSE],
     disabled |-> FALSE, label |-> OriginalLabel, classes |-> {},
     started |-> 0, timers |-> << >>]

\* the worker's specifications leave the page as it is
NoPage == nav = RawNav(MOBILE_BREAKPOINT) /\ form = RawForm

Init ==
    /\ caches \in InitStores
    /\ handlers = [h \in Handlers |-> IdleHandler]
    /\ sw = ActiveWorker
    /\ NoPage

\* a listener without the origin filter
SameOriginAlways(req) == TRUE

\* url.origin !== location.origin
SameOrigin(req) == req.url.origin = SiteOrigin

Called(hr, call) == hr.calls \o <<call>>

\* return value of the async function handed to respondWith
Return(hr, response) == [hr EXCEPT !.pc = "done", !.resp = response]

\* a listener that tests the destination before the mode
DispatchImageFirst(req) ==
    LET hr == [IdleHandler EXCEPT !.req = req] IN
    IF ~SameOrigin(req)
    THEN [hr EXCEPT !.pc = "passthrough"]
    ELSE IF req.destination = "image"
    THEN [hr EXCEPT !.pc = "img_open", !.calls = <<"caches.open">>]
    ELSE IF req.mode = "navigate"
    THEN [hr EXCEPT !.pc = "nav_fetch", !.calls = <<"fetch">>]
    ELSE [hr EXCEPT !.pc = "oth_match", !.calls = <<"caches.match">>]

\* the synchronous part of the fetch listener
Dispatch(req) ==
    LET hr == [IdleHandler EXCEPT !.req = req] IN
    IF ~SameOrigin(req)
    THEN [hr EXCEPT !.pc = "passthrough"]
    ELSE IF req.mode = "navigate"
    THEN [hr EXCEPT !.pc = "nav_fetch", !.calls = <<"fetch">>]
    ELSE IF req.destination = "image"
    THEN [hr EXCEPT !.pc = "img_open", !.calls = <<"caches.open">>]
    ELSE [hr EXCEPT !.pc = "oth_match", !.calls = <<"caches.match">>]

\* a host that delivers a fetch event only when no handler is suspended
FetchEventOneAtATime(h, req) ==
    /\ sw.state = "activated"
    /\ handlers[h].pc = "idle"
    /\ \A g \in Handlers : handlers[g].pc \in {"idle", "done", "passthrough"}
    /\ handlers' = [handlers EXCEPT ![h] = Dispatch(req)]
    /\ UNCHANGED <<caches, sw, nav, form>>

\* a handler moves on; the lifecycle state is not touched by the router
Step(h, hr) ==
    /\ handlers' = [handlers EXCEPT ![h] = hr]
    /\ UNCHANGED <<sw, nav, form>>

\* the host delivers fetch events to the activated worker
FetchEvent(h, req) ==
    /\ sw.state = "activated"
    /\ handlers[h].pc = "idle"
    /\ \A g \in Handlers : g < h => handlers[g].pc # "idle"
    /\ Step(h, Dispatch(req))
    /\ UNCHANGED caches

\* the un-awaited cache.put(request, networkResponse.clone()) is issued
IssuePut(hr, name) ==
    [hr EXCEPT !.calls = Called(hr, "cache.put"), !.put = "pending", !.putNs = name]

(***************************************************************************)
(* Navigation: network first.                                              *)
(***************************************************************************)
\* await fetch(request) resolves
NavFetchResolved(h, ok) ==
    LET hr == handlers[h]
        networkResponse == NetworkResponse(hr.req.url, ok, h)
        got == [hr EXCEPT !.net = networkResponse]
    IN  /\ hr.pc = "nav_fetch"
        /\ IF Ok(networkResponse)
           THEN Step(h, [got EXCEPT !.pc = "nav_open",
                                    !.calls = Called(hr, "caches.open")])
           ELSE Step(h, Return(got, networkResponse))
        /\ UNCHANGED caches

\* a navigate branch that forgets the write-through
NavOpenResolvedNoPut(h) ==
    LET hr == handlers[h] IN
    /\ hr.pc = "nav_open"
    /\ caches' = CachesOpen(caches, CACHE_NAME)
    /\ Step(h, Return(hr, hr.net))

\* a navigate branch that awaits the put before it returns
NavOpenResolvedAwaitsPut(h) ==
    LET hr == handlers[h] IN
    /\ hr.pc = "nav_open"
    /\ caches' = CachePut(CachesOpen(caches, CACHE_NAME), CACHE_NAME,
                          hr.req.url, hr.net)
    /\ Step(h, Return([IssuePut(hr, CACHE_NAME) EXCEPT !.put = "done"], hr.net))

\* await caches.open(CACHE_NAME) resolves; put is issued, the response returned
NavOpenResolved(h) ==
    LET hr == handlers[h] IN
    /\ hr.pc = "nav_open"
    /\ caches' = CachesOpen(caches, CACHE_NAME)
    /\ Step(h, Return(IssuePut(hr, CACHE_NAME), hr.net))

\* a navigate branch without the try/catch: the rejection reaches respondWith
NavFetchRejectedPropagates(h) ==
    LET hr == handlers[h] IN
    /\ hr.pc = "nav_fetch"
    /\ Step(h, [hr EXCEPT !.pc = "failed"])
    /\ UNCHANGED caches

\* await fetch(request) rejects: catch
NavFetchRejected(h) ==
    LET hr == handlers[h] IN
    /\ hr.pc = "nav_fetch"
    /\ Step(h, [hr EXCEPT !.pc = "nav_match", !.calls = Called(hr, "caches.match")])
    /\ UNCHANGED caches

\* a navigate branch that goes to the offline page without using the cached
\* entry of the request
NavMatchResolvedOfflineFirst(h) ==
    LET hr == handlers[h] IN
    /\ hr.pc = "nav_match"
    /\ Step(h, [hr EXCEPT !.pc = "nav_offline",
                          !.calls = Called(hr, "caches.match(OFFLINE_URL)")])
    /\ UNCHANGED caches

\* await caches.match(request) resolves
NavMatchResolved(h) ==
    LET hr == handlers[h]
        cachedResponse == CachesMatch(caches, hr.req.url)
    IN  /\ hr.pc = "nav_match"
        /\ IF cachedResponse # Absent
           THEN Step(h, Return([hr EXCEPT !.hitIn = CachesMatchSource(caches, hr.req.url)],
                               cachedResponse))
           ELSE Step(h, [hr EXCEPT !.pc = "nav_offline",
                                   !.calls = Called(hr, "caches.match(OFFLINE_URL)")])
        /\ UNCHANGED caches

\* a navigate branch that answers 503 without using the stored offline page
NavOfflineResolvedNoFallback(h) ==
    LET hr == handlers[h] IN
    /\ hr.pc = "nav_offline"
    /\ Step(h, Return(hr, OfflineTextResponse))
    /\ UNCHANGED caches

\* await caches.match(OFFLINE_URL) resolves
NavOfflineResolved(h) ==
    LET hr == handlers[h]
        offlineResponse == CachesMatch(caches, OFFLINE_URL)
    IN  /\ hr.pc = "nav_offline"
        /\ IF offlineResponse # Absent
           THEN Step(h, Return([hr EXCEPT !.hitIn = CachesMatchSource(caches, OFFLINE_URL)],
                               offlineResponse))
           ELSE Step(h, Return(hr, OfflineTextResponse))
        /\ UNCHANGED caches

(***************************************************************************)
(* Images: cache first, in the image namespace.                            *)
(***************************************************************************)
\* await caches.open(IMAGE_CACHE_NAME) resolves
\* an image branch that opens the image namespace of the previous version
ImgOpenResolvedPreviousVersion(h) ==
    LET hr == handlers[h] IN
    /\ hr.pc = "img_open"
    /\ caches' = CachesOpen(caches, STALE_IMAGE_CACHE_NAME)
    /\ Step(h, [hr EXCEPT !.pc = "img_match", !.calls = Called(hr, "cache.match")])

ImgOpenResolved(h) ==
    LET hr == handlers[h] IN
    /\ hr.pc = "img_open"
    /\ caches' = CachesOpen(caches, IMAGE_CACHE_NAME)
    /\ Step(h, [hr EXCEPT !.pc = "img_match", !.calls = Called(hr, "cache.match")])

\* an image branch that goes to the network whatever the namespace holds
ImgMatchResolvedAlwaysFetch(h) ==
    LET hr == handlers[h] IN
    /\ hr.pc = "img_match"
    /\ Step(h, [hr EXCEPT !.pc = "img_fetch", !.calls = Called(hr, "fetch")])
    /\ UNCHANGED caches

\* an image branch that looks the request up in every namespace
ImgMatchResolvedAnyNamespace(h) ==
    LET hr == handlers[h]
        cachedResponse == CachesMatch(caches, hr.req.url)
    IN  /\ hr.pc = "img_match"
        /\ IF cachedResponse # Absent
           THEN Step(h, Return([hr EXCEPT !.hitIn = CachesMatchSource(caches, hr.req.url)],
                               cachedResponse))
           ELSE Step(h, [hr EXCEPT !.pc = "img_fetch", !.calls = Called(hr, "fetch")])
        /\ UNCHANGED caches

\* await cache.match(request) resolves
ImgMatchResolved(h) ==
    LET hr == handlers[h]
        cachedResponse == CacheMatch(caches, IMAGE_CACHE_NAME, hr.req.url)
    IN  /\ hr.pc = "img_match"
        /\ IF cachedResponse # Absent
           THEN Step(h, Return([hr EXCEPT !.hitIn = IMAGE_CACHE_NAME], cachedResponse))
           ELSE Step(h, [hr EXCEPT !.pc = "img_fetch", !.calls = Called(hr, "fetch")])
        /\ UNCHANGED caches

\* an image branch that stores into the static namespace
ImgFetchResolvedIntoStatic(h, ok) ==
    LET hr == handlers[h]
        networkResponse == NetworkResponse(hr.req.url, ok, h)
        got == [hr EXCEPT !.net = networkResponse]
    IN  /\ hr.pc = "img_fetch"
        /\ IF Ok(networkResponse)
           THEN Step(h, Return(IssuePut(got, CACHE_NAME), networkResponse))
           ELSE Step(h, Return(got, networkResponse))
        /\ UNCHANGED caches

\* await fetch(request) resolves
ImgFetchResolved(h, ok) ==
    LET hr == handlers[h]
        networkResponse == NetworkResponse(hr.req.url, ok, h)
        got == [hr EXCEPT !.net = networkResponse]
    IN  /\ hr.pc = "img_fetch"
        /\ IF Ok(networkResponse)
           THEN Step(h, Return(IssuePut(got, IMAGE_CACHE_NAME), networkResponse))
           ELSE Step(h, Return(got, networkResponse))
        /\ UNCHANGED caches

\* an image branch without the try/catch: the rejection reaches respondWith
ImgFetchRejectedPropagates(h) ==
    LET hr == handlers[h] IN
    /\ hr.pc = "img_fetch"
    /\ Step(h, [hr EXCEPT !.pc = "failed"])
    /\ UNCHANGED caches

\* await fetch(request) rejects: catch
ImgFetchRejected(h) ==
    LET hr == handlers[h] IN
    /\ hr.pc = "img_fetch"
    /\ Step(h, Return(hr, PlaceholderResponse))
    /\ UNCHANGED caches

(***************************************************************************)
(* Everything else: cache first.                                           *)
(***************************************************************************)
\* await caches.match(request) resolves
OthMatchResolved(h) ==
    LET hr == handlers[h]
        cachedResponse == CachesMatch(caches, hr.req.url)
    IN  /\ hr.pc = "oth_match"
        /\ IF cachedResponse # Absent
           THEN Step(h, Return([hr EXCEPT !.hitIn = CachesMatchSource(caches, hr.req.url)],
                               cachedResponse))
           ELSE Step(h, [hr EXCEPT !.pc = "oth_fetch", !.calls = Called(hr, "fetch")])
        /\ UNCHANGED caches

\* a last branch that stores the response without testing networkResponse.ok
OthFetchResolvedStoresAny(h, ok) ==
    LET hr == handlers[h]
        networkResponse == NetworkResponse(hr.req.url, ok, h)
        got == [hr EXCEPT !.net = networkResponse]
    IN  /\ hr.pc = "oth_fetch"
        /\ Step(h, [got EXCEPT !.pc = "oth_open",
                               !.calls = Called(hr, "caches.open")])
        /\ UNCHANGED caches

\* await fetch(request) resolves
OthFetchResolved(h, ok) ==
    LET hr == handlers[h]
        networkResponse == NetworkResponse(hr.req.url, ok, h)
        got == [hr EXCEPT !.net = networkResponse]
    IN  /\ hr.pc = "oth_fetch"
        /\ IF Ok(networkResponse)
           THEN Step(h, [got EXCEPT !.pc = "oth_open",
                                    !.calls = Called(hr, "caches.open")])
           ELSE Step(h, Return(got, networkResponse))
        /\ UNCHANGED caches

\* a last branch that stores into the image namespace
OthOpenResolvedIntoImages(h) ==
    LET hr == handlers[h] IN
    /\ hr.pc = "oth_open"
    /\ caches' = CachesOpen(caches, IMAGE_CACHE_NAME)
    /\ Step(h, Return(IssuePut(hr, IMAGE_CACHE_NAME), hr.net))

\* await caches.open(CACHE_NAME) resolves; put is issued, the response returned
OthOpenResolved(h) ==
    LET hr == handlers[h] IN
    /\ hr.pc = "oth_open"
    /\ caches' = CachesOpen(caches, CACHE_NAME)
    /\ Step(h, Return(IssuePut(hr, CACHE_NAME), hr.net))

\* a last branch whose catch was copied from the image branch
OthFetchRejectedPlaceholder(h) ==
    LET hr == handlers[h] IN
    /\ hr.pc = "oth_fetch"
    /\ Step(h, Return(hr, PlaceholderResponse))
    /\ UNCHANGED caches

\* await fetch(request) rejects: catch
OthFetchRejected(h) ==
    LET hr == handlers[h] IN
    /\ hr.pc = "oth_fetch"
    /\ Step(h, Return(hr, UnavailableResponse))
    /\ UNCHANGED caches

\* a put that keeps an entry already stored under the descriptor
PutCompletedKeepsExisting(h) ==
    LET hr == handlers[h] IN
    /\ hr.put = "pending"
    /\ caches' = IF CacheMatch(caches, hr.putNs, hr.req.url) = Absent
                 THEN CachePut(caches, hr.putNs, hr.req.url, hr.net)
                 ELSE caches
    /\ Step(h, [hr EXCEPT !.put = "done"])

(***************************************************************************)
(* The detached cache.put of a handler completes.                          *)
(***************************************************************************)
PutCompleted(h) ==
    LET hr == handlers[h] IN
    /\ hr.put = "pending"
    /\ caches' = CachePut(caches, hr.putNs, hr.req.url, hr.net)
    /\ Step(h, [hr EXCEPT !.put = "done"])

Next ==
    \E h \in Handlers :
        \/ \E req \in Requests : FetchEvent(h, req)
        \/ \E ok \in BOOLEAN : NavFetchResolved(h, ok)
        \/ NavOpenResolved(h)
        \/ NavFetchRejected(h)
        \/ NavMatchResolved(h)
        \/ NavOfflineResolved(h)
        \/ ImgOpenResolved(h)
        \/ ImgMatchResolved(h)
        \/ \E ok \in BOOLEAN : ImgFetchResolved(h, ok)
        \/ ImgFetchRejected(h)
        \/ OthMatchResolved(h)
        \/ \E ok \in BOOLEAN : OthFetchResolved(h, ok)
        \/ OthOpenResolved(h)
        \/ OthFetchRejected(h)
        \/ PutCompleted(h)

Spec == Init /\ [][Next]_vars

\* handler h resumes from one of its awaits
Resume(h) ==
    \/ \E ok \in BOOLEAN : NavFetchResolved(h, ok)
    \/ NavOpenResolved(h)
    \/ NavFetchRejected(h)
    \/ NavMatchResolved(h)
    \/ NavOfflineResolved(h)
    \/ ImgOpenResolved(h)
    \/ ImgMatchResolved(h)
    \/ \E ok \in BOOLEAN : ImgFetchResolved(h, ok)
    \/ ImgFetchRejected(h)
    \/ OthMatchResolved(h)
    \/ \E ok \in BOOLEAN : OthFetchResolved(h, ok)
    \/ OthOpenResolved(h)
    \/ OthFetchRejected(h)

\* the host settles every promise a handler awaits
FairSpec == Spec /\ \A h \in Handlers : WF_vars(Resume(h))

(***************************************************************************)
(* Properties of the request router                                        *)
(***************************************************************************)
Started(h) == handlers[h].pc # "idle"

CrossOrigin(h) == Started(h) /\ handlers[h].req.url.origin # SiteOrigin

IsNavigation(h) ==
    Started(h) /\ ~CrossOrigin(h) /\ handlers[h].req.mode = "navigate"

IsImage(h) ==
    Started(h) /\ ~CrossOrigin(h) /\ ~IsNavigation(h)
    /\ handlers[h].req.destination = "image"

IsOther(h) ==
    Started(h) /\ ~CrossOrigin(h) /\ ~IsNavigation(h) /\ ~IsImage(h)

Issued(h, call) ==
    \E i \in 1..Len(handlers[h].calls) : handlers[h].calls[i] = call

IssuedNext(h, call) ==
    \E i \in 1..Len(handlers'[h].calls) : handlers'[h].calls[i] = call

\* handler h takes a step
Moves(h) == handlers'[h] # handlers[h]

\* the responses stored under url, in any namespace
StoredUnder(store, url) ==
    {store[i].entries[url] : i \in 1..Len(store)} \ {Absent}

\* the responses stored under url in the namespace called name
StoredIn(store, name, url) ==
    {store[i].entries[url] : i \in {j \in 1..Len(store) : store[j].name = name}}
        \ {Absent}

\* a step changes at most the entry of url in the namespace called name
OnlyEntryChanges(name, url) ==
    /\ Len(caches') = Len(caches)
    /\ \A i \in 1..Len(caches) :
        /\ caches'[i].name = caches[i].name
        /\ \A u \in URLs :
            (caches[i].name # name \/ u # url) =>
                caches'[i].entries[u] = caches[i].entries[u]

\* C1: a request whose origin differs from the site's own is not responded
\* to: its handler issues no cache read, no cache write and no network fetch,
\* and the step that receives it leaves the cache store unchanged.
C1_CrossOriginUntouched ==
    \A h \in Handlers :
        CrossOrigin(h) =>
            /\ handlers[h].pc = "passthrough"
            /\ handlers[h].resp = Absent
            /\ handlers[h].calls = << >>
            /\ handlers[h].put = "none"

C1_CrossOriginFrame ==
    \A h \in Handlers :
        ((handlers'[h].pc # "idle" /\ handlers'[h].req.url.origin # SiteOrigin)
            /\ Moves(h)) => caches' = caches

C1_CrossOriginPassThrough ==
    [](C1_CrossOriginUntouched) /\ [][C1_CrossOriginFrame]_vars

\* a cross-origin image request has been passed through while the cache
\* store holds entries
C1_Witness ==
    \E h \in Handlers :
        /\ handlers[h].pc = "passthrough"
        /\ handlers[h].req.destination = "image"
        /\ handlers[h].req.url.origin = ImageHostOrigin
        /\ Len(caches) > 0

\* a handler that has returned issues no further call (so no further put)
\* and keeps its response
DoneIsFinal ==
    \A h \in Handlers :
        handlers[h].pc = "done" =>
            /\ handlers'[h].pc = "done"
            /\ handlers'[h].resp = handlers[h].resp
            /\ handlers'[h].calls = handlers[h].calls
            /\ handlers[h].put = "none" => handlers'[h].put = "none"

\* the detached put of handler h completes in this step
PutCompletes(h) == handlers[h].put = "pending" /\ handlers'[h].put = "done"

\* C2: a same-origin navigation whose fetch resolved returns the network
\* response; when that response is ok a put into the static namespace is
\* issued under the request's descriptor, and once the put has completed
\* the static namespace holds an entry for the descriptor.
C2_NavReturnsNetwork ==
    \A h \in Handlers :
        (IsNavigation(h) /\ handlers[h].net # Absent) =>
            /\ handlers[h].pc \in {"nav_open", "done"}
            /\ handlers[h].pc = "done" => handlers[h].resp = handlers[h].net
            /\ (Ok(handlers[h].net) /\ handlers[h].pc = "done") =>
                   /\ Issued(h, "cache.put")
                   /\ handlers[h].put \in {"pending", "done"}
                   /\ handlers[h].putNs = CACHE_NAME
            /\ (Ok(handlers[h].net) /\ handlers[h].put = "done") =>
                   CacheMatch(caches, CACHE_NAME, handlers[h].req.url) # Absent

C2_NavWriteLands ==
    \A h \in Handlers :
        (IsNavigation(h) /\ PutCompletes(h)) =>
            CacheMatch(caches', CACHE_NAME, handlers[h].req.url) = handlers[h].net

C2_NavigationNetworkFirst ==
    [](C2_NavReturnsNetwork) /\ [][C2_NavWriteLands]_vars

\* a navigation was answered from the network and its write has landed in a
\* static namespace that did not hold the page before
C2_Witness ==
    \E h \in Handlers :
        /\ IsNavigation(h)
        /\ handlers[h].pc = "done"
        /\ Ok(handlers[h].net)
        /\ handlers[h].resp = handlers[h].net
        /\ handlers[h].put = "done"
        /\ CacheMatch(caches, CACHE_NAME, handlers[h].req.url) = handlers[h].net

\* C3: when the fetch of a same-origin navigation has failed and some
\* namespace holds an entry for the request at lookup time, the handler
\* returns such an entry and never looks up the offline-fallback key.
C3_NavCachedOnFailure ==
    \A h \in Handlers :
        (/\ IsNavigation(h)
         /\ handlers[h].pc = "nav_match"
         /\ Moves(h)
         /\ StoredUnder(caches, handlers[h].req.url) # {}) =>
            /\ handlers'[h].pc = "done"
            /\ handlers'[h].resp \in StoredUnder(caches, handlers[h].req.url)
            /\ ~IssuedNext(h, "caches.match(OFFLINE_URL)")

C3_NavigationCacheFallback ==
    [][C3_NavCachedOnFailure /\ DoneIsFinal]_vars

\* a failed navigation was answered with the cached entry of the request
C3_Witness ==
    \E h \in Handlers :
        /\ IsNavigation(h)
        /\ handlers[h].pc = "done"
        /\ handlers[h].net = Absent
        /\ handlers[h].hitIn # ""
        /\ handlers[h].resp \in StoredUnder(caches, handlers[h].req.url)
        /\ Issued(h, "caches.match")
        /\ ~Issued(h, "caches.match(OFFLINE_URL)")

\* C4: when the fetch of a same-origin navigation has failed and no
\* namespace holds an entry for the request, the handler looks up the
\* offline-fallback key and returns the stored offline page when one is
\* stored, otherwise a synthesized plain-text response with status 503.
C4_NavMissGoesOffline ==
    \A h \in Handlers :
        (/\ IsNavigation(h)
         /\ handlers[h].pc = "nav_match"
         /\ Moves(h)
         /\ StoredUnder(caches, handlers[h].req.url) = {}) =>
            /\ handlers'[h].pc = "nav_offline"
            /\ IssuedNext(h, "caches.match(OFFLINE_URL)")

C4_NavOfflineAnswer ==
    \A h \in Handlers :
        (IsNavigation(h) /\ handlers[h].pc = "nav_offline" /\ Moves(h)) =>
            /\ handlers'[h].pc = "done"
            /\ IF StoredUnder(caches, OFFLINE_URL) # {}
               THEN handlers'[h].resp \in StoredUnder(caches, OFFLINE_URL)
               ELSE /\ handlers'[h].resp.status = 503
                    /\ handlers'[h].resp.ctype = "text/plain; charset=utf-8"
                    /\ handlers'[h].resp = OfflineTextResponse

C4_NavigationOfflineFallback ==
    [][C4_NavMissGoesOffline /\ C4_NavOfflineAnswer /\ DoneIsFinal]_vars

\* a failed navigation to a page no namespace holds was answered with the
\* stored offline page
C4_Witness ==
    \E h \in Handlers :
        /\ IsNavigation(h)
        /\ handlers[h].pc = "done"
        /\ handlers[h].net = Absent
        /\ Issued(h, "caches.match(OFFLINE_URL)")
        /\ handlers[h].resp \in StoredUnder(caches, OFFLINE_URL)
        /\ StoredUnder(caches, handlers[h].req.url) = {}

\* a failed navigation was answered with the synthesized 503 because no
\* offline page is stored
C4_WitnessUnavailable ==
    \E h \in Handlers :
        /\ IsNavigation(h)
        /\ handlers[h].pc = "done"
        /\ handlers[h].net = Absent
        /\ Issued(h, "caches.match(OFFLINE_URL)")
        /\ handlers[h].resp = OfflineTextResponse
        /\ StoredUnder(caches, OFFLINE_URL) = {}

\* C5: when the image namespace holds an entry for a same-origin image
\* request at lookup time, the handler returns that entry, and issues no
\* network fetch and no cache write.
C5_ImageHit ==
    \A h \in Handlers :
        (/\ IsImage(h)
         /\ handlers[h].pc = "img_match"
         /\ Moves(h)
         /\ StoredIn(caches, IMAGE_CACHE_NAME, handlers[h].req.url) # {}) =>
            /\ handlers'[h].pc = "done"
            /\ handlers'[h].resp \in
                   StoredIn(caches, IMAGE_CACHE_NAME, handlers[h].req.url)
            /\ ~IssuedNext(h, "fetch")
            /\ ~IssuedNext(h, "cache.put")
            /\ handlers'[h].put = "none"
            /\ caches' = caches

C5_ImageCacheFirst == [][C5_ImageHit /\ DoneIsFinal]_vars

\* an image request was answered from the image namespace
C5_Witness ==
    \E h \in Handlers :
        /\ IsImage(h)
        /\ handlers[h].pc = "done"
        /\ handlers[h].hitIn = IMAGE_CACHE_NAME
        /\ handlers[h].resp \in
               StoredIn(caches, IMAGE_CACHE_NAME, handlers[h].req.url)
        /\ handlers[h].calls = <<"caches.open", "cache.match">>

\* C6: when the image namespace holds no entry and the fetch fails, the
\* handler returns the synthesized placeholder (content-type image/svg+xml)
\* instead of failing, and writes nothing.
C6_ImagePlaceholder ==
    \A h \in Handlers :
        (/\ IsImage(h)
         /\ handlers[h].pc = "img_fetch"
         /\ Moves(h)
         /\ handlers'[h].net = Absent) =>
            /\ handlers'[h].pc = "done"
            /\ handlers'[h].resp = PlaceholderResponse
            /\ handlers'[h].resp.ctype = "image/svg+xml"
            /\ ~IssuedNext(h, "cache.put")
            /\ handlers'[h].put = "none"
            /\ caches' = caches

C6_ImageNetworkFailure == [][C6_ImagePlaceholder /\ DoneIsFinal]_vars

\* an image request that missed the image namespace and whose fetch failed
\* was answered with the placeholder
C6_Witness ==
    \E h \in Handlers :
        /\ IsImage(h)
        /\ handlers[h].pc = "done"
        /\ handlers[h].calls = <<"caches.open", "cache.match", "fetch">>
        /\ handlers[h].net = Absent
        /\ handlers[h].resp.ctype = "image/svg+xml"
        /\ handlers[h].put = "none"

\* C7: when the image namespace holds no entry and the fetch succeeds, the
\* handler returns the network response and issues a put into the image
\* namespace under the request's descriptor; the put, when it completes,
\* replaces whatever entry is there and touches nothing else.
C7_ImageReturnsNetwork ==
    \A h \in Handlers :
        (IsImage(h) /\ handlers[h].net # Absent) =>
            /\ handlers[h].pc = "done"
            /\ handlers[h].resp = handlers[h].net
            /\ Ok(handlers[h].net) =>
                   /\ Issued(h, "cache.put")
                   /\ handlers[h].put \in {"pending", "done"}
                   /\ handlers[h].putNs = IMAGE_CACHE_NAME

C7_ImageWriteLands ==
    \A h \in Handlers :
        (IsImage(h) /\ PutCompletes(h)) =>
            /\ StoredIn(caches', IMAGE_CACHE_NAME, handlers[h].req.url)
                   = {handlers[h].net}
            /\ OnlyEntryChanges(IMAGE_CACHE_NAME, handlers[h].req.url)

C7_ImageNetworkStore ==
    [](C7_ImageReturnsNetwork) /\ [][C7_ImageWriteLands]_vars

\* two image requests for one descriptor both missed and fetched; the put of
\* g landed first and the put of h has replaced it
C7_Witness ==
    \E h, g \in Handlers :
        /\ h # g
        /\ IsImage(h) /\ IsImage(g)
        /\ handlers[h].req.url = handlers[g].req.url
        /\ handlers[h].put = "done" /\ handlers[g].put = "done"
        /\ handlers[h].net # handlers[g].net
        /\ handlers[h].resp = handlers[h].net
        /\ StoredIn(caches, IMAGE_CACHE_NAME, handlers[h].req.url)
               = {handlers[h].net}

\* C8: for a same-origin request that is neither a navigation nor an image,
\* a response returned on a cache hit is an entry of the current static
\* namespace, never one of the image namespace or of a stale namespace.
C8_OtherHitIsStatic ==
    \A h \in Handlers :
        (IsOther(h) /\ handlers[h].pc = "done" /\ handlers[h].hitIn # "") =>
            handlers[h].hitIn = CACHE_NAME

\* the same request answered from the image namespace
C8_HitInImageNamespace ==
    \E h \in Handlers :
        /\ IsOther(h)
        /\ handlers[h].pc = "done"
        /\ handlers[h].hitIn = IMAGE_CACHE_NAME

\* C9: when a same-origin request that is neither a navigation nor an image
\* misses the cache and its fetch succeeds, the handler returns the network
\* response and issues a put into the static namespace under the request's
\* descriptor, which stores that response when it completes.
C9_OtherReturnsNetwork ==
    \A h \in Handlers :
        (IsOther(h) /\ handlers[h].net # Absent) =>
            /\ handlers[h].hitIn = ""
            /\ handlers[h].pc \in {"oth_open", "done"}
            /\ handlers[h].pc = "done" => handlers[h].resp = handlers[h].net
            /\ (Ok(handlers[h].net) /\ handlers[h].pc = "done") =>
                   /\ Issued(h, "cache.put")
                   /\ handlers[h].put \in {"pending", "done"}
                   /\ handlers[h].putNs = CACHE_NAME
            /\ (Ok(handlers[h].net) /\ handlers[h].put = "done") =>
                   StoredIn(caches, CACHE_NAME, handlers[h].req.url) # {}

C9_OtherWriteLands ==
    \A h \in Handlers :
        (IsOther(h) /\ PutCompletes(h)) =>
            /\ StoredIn(caches', CACHE_NAME, handlers[h].req.url)
                   = {handlers[h].net}
            /\ OnlyEntryChanges(CACHE_NAME, handlers[h].req.url)

C9_OtherNetworkStore ==
    [](C9_OtherReturnsNetwork) /\ [][C9_OtherWriteLands]_vars

\* a stylesheet or script request missed, was answered from the network, and
\* its copy is in the static namespace
C9_Witness ==
    \E h \in Handlers :
        /\ IsOther(h)
        /\ handlers[h].pc = "done"
        /\ handlers[h].calls = <<"caches.match", "fetch", "caches.open", "cache.put">>
        /\ Ok(handlers[h].net)
        /\ handlers[h].resp = handlers[h].net
        /\ handlers[h].put = "done"
        /\ StoredIn(caches, CACHE_NAME, handlers[h].req.url) = {handlers[h].net}

\* C10: when a same-origin request that is neither a navigation nor an image
\* misses the cache and its fetch fails, the handler returns a synthesized
\* plain-text 503 response, not the image placeholder and not the offline
\* page, and writes nothing.
C10_OtherUnavailable ==
    \A h \in Handlers :
        (/\ IsOther(h)
         /\ handlers[h].pc = "oth_fetch"
         /\ Moves(h)
         /\ handlers'[h].net = Absent) =>
            /\ handlers'[h].pc = "done"
            /\ handlers'[h].resp.status = 503
            /\ handlers'[h].resp.ctype = "text/plain; charset=utf-8"
            /\ handlers'[h].resp # PlaceholderResponse
            /\ handlers'[h].resp \notin StoredUnder(caches, OFFLINE_URL)
            /\ ~IssuedNext(h, "caches.match(OFFLINE_URL)")
            /\ ~IssuedNext(h, "cache.put")
            /\ handlers'[h].put = "none"
            /\ caches' = caches

C10_OtherNetworkFailure == [][C10_OtherUnavailable /\ DoneIsFinal]_vars

\* a stylesheet or script request missed the cache, its fetch failed, and it
\* was answered 503
C10_Witness ==
    \E h \in Handlers :
        /\ IsOther(h)
        /\ handlers[h].pc = "done"
        /\ handlers[h].calls = <<"caches.match", "fetch">>
        /\ handlers[h].net = Absent
        /\ handlers[h].resp.status = 503
        /\ handlers[h].put = "none"

\* the awaits a handler can be suspended at
AwaitingFetch == {"nav_fetch", "img_fetch", "oth_fetch"}

AwaitingCache ==
    {"nav_open", "nav_match", "nav_offline", "img_open", "img_match",
     "oth_match", "oth_open"}

\* C11: every same-origin request, whatever its category and whether its
\* fetch resolves or rejects, ends with a response handed to respondWith;
\* the async function of a handler never rejects.
C11_NoHandlerFails ==
    \A h \in Handlers :
        (Started(h) /\ handlers[h].req.url.origin = SiteOrigin) =>
            /\ handlers[h].pc \in AwaitingFetch \cup AwaitingCache \cup {"done"}
            /\ handlers[h].pc = "done" => handlers[h].resp # Absent
            /\ handlers[h].pc # "done" => handlers[h].resp = Absent

C11_Responds ==
    \A h \in Handlers :
        (Started(h) /\ handlers[h].req.url.origin = SiteOrigin)
            ~> (handlers[h].pc = "done" /\ handlers[h].resp # Absent)

C11_AlwaysAResponse == [](C11_NoHandlerFails) /\ C11_Responds

\* requests of two categories whose fetches failed have both been answered
C11_Witness ==
    \E h, g \in Handlers :
        /\ h # g
        /\ handlers[h].req.mode # handlers[g].req.mode
        /\ handlers[h].pc = "done" /\ handlers[g].pc = "done"
        /\ Issued(h, "fetch") /\ Issued(g, "fetch")
        /\ handlers[h].net = Absent /\ handlers[g].net = Absent
        /\ handlers[h].resp # Absent /\ handlers[g].resp # Absent

\* C17: opening a namespace name again yields the same namespace: the store
\* never holds two namespaces of one name, a completed put is what a match
\* through any handle of that name returns, and a second put of a descriptor
\* leaves one entry, holding the second response.
C17_OneNamespacePerName ==
    \A i, j \in 1..Len(caches) : caches[i].name = caches[j].name => i = j

C17_PutVisibleThroughName ==
    \A h \in Handlers :
        PutCompletes(h) =>
            /\ CacheMatch(caches', handlers[h].putNs, handlers[h].req.url)
                   = handlers[h].net
            /\ StoredIn(caches', handlers[h].putNs, handlers[h].req.url)
                   = {handlers[h].net}

C18_PutSetsEntrySilently ==
    \A h \in Handlers :
        PutCompletes(h) =>
            /\ StoredIn(caches', handlers[h].putNs, handlers[h].req.url)
                   = {handlers[h].net}
            /\ handlers'[h].pc = handlers[h].pc
            /\ handlers'[h].resp = handlers[h].resp

C18_OnlyPutsChangeEntries ==
    \A i \in 1..Len(caches) : \A u \in URLs :
        caches'[i].entries[u] # caches[i].entries[u] =>
            \E h \in Handlers :
                /\ PutCompletes(h)
                /\ handlers[h].putNs = caches[i].name
                /\ handlers[h].req.url = u

C18_NoHandlerError ==
    \A h \in Handlers : handlers[h].pc # "failed"

C18_LastWriteWins ==
    /\ [](C18_NoHandlerError)
    /\ [][C18_PutSetsEntrySilently /\ C18_OnlyPutsChangeEntries]_vars

\* two requests raced on one descriptor: the handler that started first
\* completed its put last, and its response is the entry
C18_Witness ==
    \E h, g \in Handlers :
        /\ h < g
        /\ handlers[h].req.url = handlers[g].req.url
        /\ handlers[h].putNs = handlers[g].putNs
        /\ handlers[h].put = "done" /\ handlers[g].put = "done"
        /\ handlers[h].pc = "done" /\ handlers[g].pc = "done"
        /\ handlers[h].net # handlers[g].net
        /\ StoredIn(caches, handlers[h].putNs, handlers[h].req.url)
               = {handlers[h].net}

\* the calls each strategy can have issued, in order
NavigationCalls ==
    { <<"fetch">>,
      <<"fetch", "caches.open">>,
      <<"fetch", "caches.open", "cache.put">>,
      <<"fetch", "caches.match">>,
      <<"fetch", "caches.match", "caches.match(OFFLINE_URL)">> }

ImageCalls ==
    { <<"caches.open">>,
      <<"caches.open", "cache.match">>,
      <<"caches.open", "cache.match", "fetch">>,
      <<"caches.open", "cache.match", "fetch", "cache.put">> }

OtherCalls ==
    { <<"caches.match">>,
      <<"caches.match", "fetch">>,
      <<"caches.match", "fetch", "caches.open">>,
      <<"caches.match", "fetch", "caches.open", "cache.put">> }

\* C19: a same-origin request is handled by one strategy, chosen in the
\* order navigation, image, other; a navigation with image destination runs
\* the navigation strategy only.
C19_OneStrategy ==
    \A h \in Handlers :
        (Started(h) /\ handlers[h].req.url.origin = SiteOrigin) =>
            IF handlers[h].req.mode = "navigate"
            THEN /\ handlers[h].calls \in NavigationCalls
                 /\ handlers[h].putNs \in {"", CACHE_NAME}
            ELSE IF handlers[h].req.destination = "image"
            THEN /\ handlers[h].calls \in ImageCalls
                 /\ handlers[h].putNs \in {"", IMAGE_CACHE_NAME}
            ELSE /\ handlers[h].calls \in OtherCalls
                 /\ handlers[h].putNs \in {"", CACHE_NAME}

\* a navigation with image destination was answered by the navigation
\* strategy and stored in the static namespace
C19_Witness ==
    \E h \in Handlers :
        /\ handlers[h].req.mode = "navigate"
        /\ handlers[h].req.destination = "image"
        /\ handlers[h].pc = "done"
        /\ handlers[h].calls = <<"fetch", "caches.open", "cache.put">>
        /\ handlers[h].putNs = CACHE_NAME
        /\ handlers[h].put = "done"

\* C20: a navigation whose fetch succeeded returns in the step that issues
\* the put, which is then still pending and has stored nothing.
C20_ReturnBeforeWrite ==
    \A h \in Handlers :
        (IsNavigation(h) /\ handlers[h].pc = "nav_open" /\ Moves(h)) =>
            /\ handlers'[h].pc = "done"
            /\ handlers'[h].resp = handlers[h].net
            /\ handlers'[h].put = "pending"
            /\ StoredUnder(caches', handlers[h].req.url)
                   = StoredUnder(caches, handlers[h].req.url)

C20_WriteIsDetached == [][C20_ReturnBeforeWrite]_vars

\* the response of one navigation has been delivered while its write is
\* pending, and a later navigation for the same page, with the network down,
\* missed the entry and fell back to the offline lookup
C20_Witness ==
    \E h, g \in Handlers :
        /\ h < g
        /\ IsNavigation(h) /\ IsNavigation(g)
        /\ handlers[h].req.url = handlers[g].req.url
        /\ handlers[h].pc = "done"
        /\ handlers[h].resp = handlers[h].net
        /\ Ok(handlers[h].net)
        /\ handlers[h].put = "pending"
        /\ handlers[g].net = Absent
        /\ Issued(g, "caches.match(OFFLINE_URL)")
        /\ StoredUnder(caches, handlers[h].req.url) = {}

(***************************************************************************)
(* Install and activate.  The stores an installing worker can find are the *)
(* namespaces earlier code of the origin left behind, in any combination.  *)
(***************************************************************************)
PriorNamespaces ==
    << Namespace(STALE_CACHE_NAME,
                 [ManifestEntries(-1) EXCEPT ![AboutURL] = Precached(AboutURL, -1)]),
       Namespace(STALE_IMAGE_CACHE_NAME,
                 [EmptyEntries EXCEPT ![MenuPhotoURL] = Precached(MenuPhotoURL, -1)]),
       Namespace(IMAGE_CACHE_NAME,
                 [EmptyEntries EXCEPT ![HeroURL] = Precached(HeroURL, -1)]),
       Namespace(ForeignCacheName,
                 [EmptyEntries EXCEPT ![MainCssURL] = Precached(MainCssURL, -1)]),
       Namespace(BareCacheName,
                 [EmptyEntries EXCEPT ![AboutURL] = Precached(AboutURL, -1)]) >>

PreInstallStores ==
    { SelectSeq(PriorNamespaces, LAMBDA ns : ns.name \in S) :
        S \in SUBSET (NamespaceNames \ {CACHE_NAME}) }

LInit ==
    /\ caches \in PreInstallStores
    /\ handlers = [h \in Handlers |-> IdleHandler]
    /\ sw = NewWorker
    /\ NoPage

\* how the fetch of one manifest URL can end: ok response, response that is
\* not ok, network error
FetchOutcomes == {"ok", "notok", "error"}

AllOk(outcome) == \A i \in ManifestIndexes : outcome[i] = "ok"

\* an addAll that stores each response as it arrives, up to the first failure
CacheAddAllOneByOne(store, name, outcome) ==
    [store EXCEPT ![IndexOf(store, name)].entries =
        [u \in URLs |->
            IF \E i \in ManifestIndexes :
                   /\ STATIC_CACHE_URLS[i] = u
                   /\ \A j \in 1..i : outcome[j] = "ok"
            THEN Precached(u, 0)
            ELSE @[u]]]

\* cache.addAll(STATIC_CACHE_URLS): every response is fetched first; they
\* are stored, all at once, only when every one of them is ok
CacheAddAll(store, name, outcome) ==
    IF AllOk(outcome)
    THEN [store EXCEPT ![IndexOf(store, name)].entries =
             [u \in URLs |->
                 IF \E i \in ManifestIndexes : STATIC_CACHE_URLS[i] = u
                 THEN Precached(u, 0)
                 ELSE @[u]]]
    ELSE store

\* the install listener runs up to its first await, then calls skipWaiting;
\* after a failed install the host installs the worker anew
InstallEvent ==
    /\ sw.state \in {"parsed", "redundant"}
    /\ sw' = [NewWorker EXCEPT !.state = "installing", !.pc = "ins_open",
                               !.skipWaiting = TRUE]
    /\ UNCHANGED <<caches, handlers, nav, form>>

\* await caches.open(CACHE_NAME) resolves; cache.addAll is called
InsOpenResolved ==
    /\ sw.pc = "ins_open"
    /\ caches' = CachesOpen(caches, CACHE_NAME)
    /\ sw' = [sw EXCEPT !.pc = "ins_addAll"]
    /\ UNCHANGED <<handlers, nav, form>>

\* an install that removes the namespace it opened when addAll fails
InsAddAllSettledCleansUp(outcome) ==
    /\ sw.pc = "ins_addAll"
    /\ caches' = IF AllOk(outcome)
                 THEN CacheAddAll(caches, CACHE_NAME, outcome)
                 ELSE CachesDelete(caches, CACHE_NAME)
    /\ sw' = IF AllOk(outcome)
             THEN [sw EXCEPT !.manifest = outcome, !.pc = "ins_fetch"]
             ELSE [sw EXCEPT !.manifest = outcome, !.pc = "ins_failed",
                             !.state = "redundant"]
    /\ UNCHANGED <<handlers, nav, form>>

\* an install that goes on after a failed addAll
InsAddAllSettledTolerant(outcome) ==
    /\ sw.pc = "ins_addAll"
    /\ caches' = CacheAddAll(caches, CACHE_NAME, outcome)
    /\ sw' = [sw EXCEPT !.manifest = outcome, !.pc = "ins_fetch"]
    /\ UNCHANGED <<handlers, nav, form>>

\* await cache.addAll(...) settles: on success the offline page is fetched,
\* on failure the async function rejects and the install fails
InsAddAllSettled(outcome) ==
    /\ sw.pc = "ins_addAll"
    /\ caches' = CacheAddAll(caches, CACHE_NAME, outcome)
    /\ sw' = IF AllOk(outcome)
             THEN [sw EXCEPT !.manifest = outcome, !.pc = "ins_fetch"]
             ELSE [sw EXCEPT !.manifest = outcome, !.pc = "ins_failed",
                             !.state = "redundant"]
    /\ UNCHANGED <<handlers, nav, form>>

\* await fetch(offlineRequest) resolves; cache.put is called
InsOfflineFetchResolved(ok) ==
    /\ sw.pc = "ins_fetch"
    /\ sw' = [sw EXCEPT !.offline = NetworkResponse(OFFLINE_URL, ok, -2),
                        !.pc = "ins_put"]
    /\ UNCHANGED <<caches, handlers, nav, form>>

\* an install without the try/catch around the offline page
InsOfflineFetchRejectedFailsInstall ==
    /\ sw.pc = "ins_fetch"
    /\ sw' = [sw EXCEPT !.offlineError = "fetch", !.pc = "ins_failed",
                        !.state = "redundant"]
    /\ UNCHANGED <<caches, handlers, nav, form>>

\* await fetch(offlineRequest) rejects: caught and logged
InsOfflineFetchRejected ==
    /\ sw.pc = "ins_fetch"
    /\ sw' = [sw EXCEPT !.offlineError = "fetch", !.pc = "ins_done",
                        !.state = "installed"]
    /\ UNCHANGED <<caches, handlers, nav, form>>

\* await cache.put(offlineRequest, offlineResponse) settles; a rejection is
\* caught and logged
InsOfflinePutSettled(stored) ==
    /\ sw.pc = "ins_put"
    /\ caches' = IF stored
                 THEN CachePut(caches, CACHE_NAME, OFFLINE_URL, sw.offline)
                 ELSE caches
    /\ sw' = [sw EXCEPT !.offlineError = IF stored THEN "none" ELSE "put",
                        !.pc = "ins_done", !.state = "installed"]
    /\ UNCHANGED <<handlers, nav, form>>

\* a filter that keeps every name with the prefix
IsStaleAnyPrefixed(name) == StartsWith(Chars(name), SitePrefix)

\* a filter that spares the current static namespace only
IsStaleSparingStaticOnly(name) ==
    /\ StartsWith(Chars(name), SitePrefix)
    /\ name # CACHE_NAME

\* the filter of the activate listener
IsStale(name) ==
    /\ StartsWith(Chars(name), SitePrefix)
    /\ name # CACHE_NAME
    /\ name # IMAGE_CACHE_NAME

\* names in creation order
KeySeq(store) == [i \in 1..Len(store) |-> store[i].name]

KeySet(keys) == {keys[i] : i \in 1..Len(keys)}

\* the activate listener runs up to its first await
ActivateEvent ==
    /\ sw.state = "installed"
    /\ sw' = [sw EXCEPT !.state = "activating", !.pc = "act_keys"]
    /\ UNCHANGED <<caches, handlers, nav, form>>

\* an activate listener that does not await the deletes before the claim
ActKeysResolvedClaimsAtOnce ==
    /\ sw.pc = "act_keys"
    /\ LET keys == KeySeq(caches)
           stale == {n \in KeySet(keys) : IsStale(n)} IN
       sw' = [sw EXCEPT
                 !.keys = keys,
                 !.deletes = [n \in NamespaceNames |->
                                 IF n \in stale THEN "pending" ELSE "none"],
                 !.pc = "act_claim",
                 !.claim = "pending"]
    /\ UNCHANGED <<caches, handlers, nav, form>>

\* await caches.keys() resolves: caches.delete is called for every name the
\* filter keeps; with none to delete, Promise.all([]) resolves and
\* clients.claim() is called
ActKeysResolved ==
    /\ sw.pc = "act_keys"
    /\ LET keys == KeySeq(caches)
           stale == {n \in KeySet(keys) : IsStale(n)} IN
       sw' = [sw EXCEPT
                 !.keys = keys,
                 !.deletes = [n \in NamespaceNames |->
                                 IF n \in stale THEN "pending" ELSE "none"],
                 !.pc = IF stale = {} THEN "act_claim" ELSE "act_deletes",
                 !.claim = IF stale = {} THEN "pending" ELSE "none"]
    /\ UNCHANGED <<caches, handlers, nav, form>>

\* a sweep that gives up the deletes still outstanding when one is rejected
ActDeleteSettledAbortsSweep(name, deleted) ==
    /\ sw.deletes[name] = "pending"
    /\ caches' = IF deleted THEN CachesDelete(caches, name) ELSE caches
    /\ LET after == [sw.deletes EXCEPT ![name] = "deleted"]
           swept == \A n \in NamespaceNames : after[n] \in {"none", "deleted"} IN
       sw' = IF ~deleted
             THEN [sw EXCEPT
                      !.deletes = [n \in NamespaceNames |->
                                      IF n = name THEN "failed"
                                      ELSE IF @[n] = "pending" THEN "none"
                                      ELSE @[n]],
                      !.pc = "act_failed", !.state = "activated"]
             ELSE IF swept
             THEN [sw EXCEPT !.deletes = after, !.pc = "act_claim",
                             !.claim = "pending"]
             ELSE [sw EXCEPT !.deletes = after]
    /\ UNCHANGED <<handlers, nav, form>>

\* a sweep that waits for every delete to settle and claims whatever the
\* outcomes (Promise.allSettled)
ActDeleteSettledAllSettled(name, deleted) ==
    /\ sw.deletes[name] = "pending"
    /\ caches' = IF deleted THEN CachesDelete(caches, name) ELSE caches
    /\ LET after == [sw.deletes EXCEPT
                        ![name] = IF deleted THEN "deleted" ELSE "failed"] IN
       sw' = IF \A n \in NamespaceNames : after[n] # "pending"
             THEN [sw EXCEPT !.deletes = after, !.pc = "act_claim",
                             !.claim = "pending"]
             ELSE [sw EXCEPT !.deletes = after]
    /\ UNCHANGED <<handlers, nav, form>>

\* one caches.delete(name) settles.  Promise.all rejects with the first
\* rejection (the async function throws, the claim is skipped, the worker
\* is activated all the same) and resolves with the last fulfilment
ActDeleteSettled(name, deleted) ==
    /\ sw.deletes[name] = "pending"
    /\ caches' = IF deleted THEN CachesDelete(caches, name) ELSE caches
    /\ LET after == [sw.deletes EXCEPT
                        ![name] = IF deleted THEN "deleted" ELSE "failed"]
           swept == \A n \in NamespaceNames : after[n] \in {"none", "deleted"} IN
       sw' = IF sw.pc # "act_deletes"
             THEN [sw EXCEPT !.deletes = after]
             ELSE IF ~deleted
             THEN [sw EXCEPT !.deletes = after, !.pc = "act_failed",
                             !.state = "activated"]
             ELSE IF swept
             THEN [sw EXCEPT !.deletes = after, !.pc = "act_claim",
                             !.claim = "pending"]
             ELSE [sw EXCEPT !.deletes = after]
    /\ UNCHANGED <<handlers, nav, form>>

\* await clients.claim() resolves
ActClaimResolved ==
    /\ sw.pc = "act_claim"
    /\ sw' = [sw EXCEPT !.claim = "done", !.pc = "act_done",
                        !.state = "activated"]
    /\ UNCHANGED <<caches, handlers, nav, form>>

LNext ==
    \/ InstallEvent
    \/ InsOpenResolved
    \/ \E outcome \in [ManifestIndexes -> FetchOutcomes] : InsAddAllSettled(outcome)
    \/ \E ok \in BOOLEAN : InsOfflineFetchResolved(ok)
    \/ InsOfflineFetchRejected
    \/ \E stored \in BOOLEAN : InsOfflinePutSettled(stored)
    \/ ActivateEvent
    \/ ActKeysResolved
    \/ \E name \in NamespaceNames, deleted \in BOOLEAN :
           ActDeleteSettled(name, deleted)
    \/ ActClaimResolved

LifecycleSpec == LInit /\ [][LNext]_vars

(***************************************************************************)
(* The other listeners of the worker.                                      *)
(***************************************************************************)
SyncTags == {"sync-forms", "sync-other"}

\* sync listener: syncFormData() runs for the tag 'sync-forms' only
SyncEvent(tag) ==
    /\ sw.state = "activated"
    /\ sw' = IF tag = "sync-forms" THEN [sw EXCEPT !.synced = TRUE] ELSE sw
    /\ UNCHANGED <<caches, handlers, nav, form>>

\* push listener: a push that carries data shows a notification
PushEvent(hasData) ==
    /\ sw.state = "activated"
    /\ sw' = IF hasData THEN [sw EXCEPT !.notification = "shown"] ELSE sw
    /\ UNCHANGED <<caches, handlers, nav, form>>

\* notificationclick listener: the notification is closed, a window opened
NotificationClick ==
    /\ sw.state = "activated"
    /\ sw.notification = "shown"
    /\ sw' = [sw EXCEPT !.notification = "none"]
    /\ UNCHANGED <<caches, handlers, nav, form>>

(***************************************************************************)
(* The whole worker: installed and activated on what earlier code left,    *)
(* then serving fetch, sync, push and notificationclick events.            *)
(***************************************************************************)
WorkerStores ==
    { SelectSeq(PriorNamespaces, LAMBDA ns : ns.name \in S) :
        S \in { {}, {STALE_CACHE_NAME},
                {STALE_CACHE_NAME, IMAGE_CACHE_NAME, ForeignCacheName} } }

WInit ==
    /\ caches \in WorkerStores
    /\ handlers = [h \in Handlers |-> IdleHandler]
    /\ sw = NewWorker
    /\ NoPage

\* the events an activated worker receives
ServeNext ==
    \/ Next
    \/ \E tag \in SyncTags : SyncEvent(tag)
    \/ \E hasData \in BOOLEAN : PushEvent(hasData)
    \/ NotificationClick

WNext == LNext \/ ServeNext

WorkerSpec == WInit /\ [][WNext]_vars

\* handler h resumes from an await of a cache operation
ResumeFromCache(h) ==
    \/ NavOpenResolved(h)
    \/ NavMatchResolved(h)
    \/ NavOfflineResolved(h)
    \/ ImgOpenResolved(h)
    \/ ImgMatchResolved(h)
    \/ OthMatchResolved(h)
    \/ OthOpenResolved(h)

\* the fetch(request) of handler h settles
FetchSettles(h) ==
    \/ \E ok \in BOOLEAN : NavFetchResolved(h, ok)
    \/ NavFetchRejected(h)
    \/ \E ok \in BOOLEAN : ImgFetchResolved(h, ok)
    \/ ImgFetchRejected(h)
    \/ \E ok \in BOOLEAN : OthFetchResolved(h, ok)
    \/ OthFetchRejected(h)

\* an activated worker whose cache operations always settle; a network
\* fetch may stay pending forever
StallSpec ==
    /\ Init
    /\ [][ServeNext]_vars
    /\ \A h \in Handlers : WF_vars(ResumeFromCache(h))

(***************************************************************************)
(* Properties of install and activate                                      *)
(***************************************************************************)
ManifestURLs == {STATIC_CACHE_URLS[i] : i \in ManifestIndexes}

\* the manifest URLs the static namespace holds an entry for
ManifestStored(store) ==
    {u \in ManifestURLs : CacheMatch(store, CACHE_NAME, u) # Absent}

\* the names of the stores above that carry the prefix and are not current
PreviousVersionNames == {STALE_CACHE_NAME, STALE_IMAGE_CACHE_NAME}

\* the namespaces a caches.match(request) of the router searches: all of them
ConsultedNames(store) == CacheNames(store)

\* C12: a completed activation has deleted exactly the names that carry the
\* site prefix and are neither current name; the current namespaces and
\* those without the prefix are still there, with the contents they had.
C12_SweptExactly ==
    sw.pc \in {"act_claim", "act_done"} =>
        /\ CacheNames(caches) = KeySet(sw.keys) \ PreviousVersionNames
        /\ \A n \in NamespaceNames :
               sw.deletes[n] = "deleted" <=>
                   n \in KeySet(sw.keys) \cap PreviousVersionNames
        /\ \A n \in NamespaceNames : sw.deletes[n] \in {"none", "deleted"}

C12_OthersUntouched ==
    sw.state \in {"activating", "activated"} =>
        \A i \in 1..Len(caches) :
            caches[i].name \notin PreviousVersionNames =>
                \E j \in 1..Len(caches') : caches'[j] = caches[i]

C12_ActivationEvictsStale ==
    [](C12_SweptExactly) /\ [][C12_OthersUntouched]_vars

\* an activation that found all six names has completed
C12_Witness ==
    /\ sw.pc = "act_done"
    /\ KeySet(sw.keys) = NamespaceNames
    /\ sw.deletes[STALE_CACHE_NAME] = "deleted"
    /\ sw.deletes[STALE_IMAGE_CACHE_NAME] = "deleted"
    /\ CacheNames(caches) =
           {CACHE_NAME, IMAGE_CACHE_NAME, ForeignCacheName, BareCacheName}
    /\ CacheMatch(caches, IMAGE_CACHE_NAME, HeroURL) = Precached(HeroURL, -1)

\* C13: when the fetch of a manifest URL fails, the install fails and the
\* step writes nothing; the static namespace never holds some of the
\* manifest's entries without the others.
C13_FailedAddAllWritesNothing ==
    (sw.pc = "ins_addAll" /\ sw'.pc # "ins_addAll" /\ ~AllOk(sw'.manifest)) =>
        /\ sw'.pc = "ins_failed"
        /\ sw'.state = "redundant"
        /\ caches' = caches

C13_NoPartialManifest ==
    ManifestStored(caches) \in {{}, ManifestURLs}

C13_InstallAllOrNothing ==
    [](C13_NoPartialManifest) /\ [][C13_FailedAddAllWritesNothing]_vars

\* the first manifest fetch succeeded, a later one failed: the install has
\* failed and the namespace holds no entry
C13_Witness ==
    /\ sw.pc = "ins_failed"
    /\ sw.manifest[1] = "ok"
    /\ \E i \in ManifestIndexes : sw.manifest[i] = "error"
    /\ ManifestStored(caches) = {}

\* C14: after an install in which a manifest fetch failed, no namespace
\* named with the new version is left among those the router's lookups
\* search.
C14_NoNewVersionNamespaceLeft ==
    sw.pc = "ins_failed" => CACHE_NAME \notin ConsultedNames(caches)

\* C15: once addAll has succeeded, a rejected fetch of the offline page, or a
\* rejected put of it, is caught: the install completes and the entries
\* addAll wrote are all still there.
C15_OfflineStepNeverFails ==
    (sw.pc \in {"ins_fetch", "ins_put"} /\ sw' # sw) =>
        /\ sw'.pc \in {"ins_put", "ins_done"}
        /\ sw'.state \in {"installing", "installed"}
        /\ sw'.offlineError # "none" =>
               /\ sw'.state = "installed"
               /\ caches' = caches

C15_ManifestEntriesRemain ==
    (sw.state = "installed" /\ sw.offlineError # "none") =>
        \A u \in ManifestURLs :
            CacheMatch(caches, CACHE_NAME, u) = Precached(u, 0)

C15_OfflinePageBestEffort ==
    [](C15_ManifestEntriesRemain) /\ [][C15_OfflineStepNeverFails]_vars

\* the separate fetch of the offline page was rejected and the worker is
\* installed
C15_Witness ==
    /\ sw.state = "installed"
    /\ sw.offlineError = "fetch"
    /\ AllOk(sw.manifest)
    /\ ManifestStored(caches) = ManifestURLs

\* the same with the put of the offline page rejected
C15_WitnessPutRejected ==
    /\ sw.state = "installed"
    /\ sw.offlineError = "put"
    /\ sw.offline # Absent
    /\ CacheMatch(caches, CACHE_NAME, OFFLINE_URL) = Precached(OFFLINE_URL, 0)

\* C16: from the moment install has completed, the static namespace holds an
\* entry for every manifest URL, the offline page included, however the
\* separate fetch of the offline page ended.
C16_InstalledHoldsManifest ==
    sw.state \in {"installed", "activating", "activated"} =>
        /\ CACHE_NAME \in CacheNames(caches)
        /\ \A i \in ManifestIndexes :
               CacheMatch(caches, CACHE_NAME, STATIC_CACHE_URLS[i]) # Absent

\* installed after the separate fetch answered with a response that is not
\* ok, which was stored
C16_Witness ==
    /\ sw.state = "installed"
    /\ sw.offline # Absent
    /\ ~Ok(sw.offline)
    /\ sw.offlineError = "none"
    /\ ManifestStored(caches) = ManifestURLs

\* C21: clients.claim() is called only after the sweep has finished: no
\* delete of the activation is outstanding when the claim is issued, nor at
\* any time after it.
C21_NoDeleteOutstandingAtClaim ==
    sw.claim # "none" =>
        \A n \in NamespaceNames : sw.deletes[n] \in {"none", "deleted"}

C21_ClaimFollowsSweep ==
    (sw.claim = "none" /\ sw'.claim # "none") =>
        /\ sw.pc \in {"act_keys", "act_deletes"}
        /\ \A n \in KeySet(sw'.keys) \cap PreviousVersionNames :
               /\ sw'.deletes[n] = "deleted"
               /\ n \notin CacheNames(caches')

C21_ClaimAfterSweep ==
    [](C21_NoDeleteOutstandingAtClaim) /\ [][C21_ClaimFollowsSweep]_vars

\* the claim has been issued, and is pending, after two deletes
C21_Witness ==
    /\ sw.pc = "act_claim"
    /\ sw.claim = "pending"
    /\ sw.deletes[STALE_CACHE_NAME] = "deleted"
    /\ sw.deletes[STALE_IMAGE_CACHE_NAME] = "deleted"

\* C22: in one activation every stale name gets its delete call in the one
\* step that follows caches.keys(), and no call later; a rejected delete
\* leaves its namespace in place, stays rejected, and leaves the calls for
\* the other names as they are.
C22_DeletesIssuedTogether ==
    \A n \in NamespaceNames :
        (sw.deletes[n] # "pending" /\ sw'.deletes[n] = "pending") =>
            /\ sw.pc = "act_keys"
            /\ sw.deletes[n] = "none"
            /\ \A m \in KeySet(sw'.keys) \cap PreviousVersionNames :
                   sw'.deletes[m] = "pending"

C22_DeleteSettlesAlone ==
    \A n \in NamespaceNames :
        /\ (sw.deletes[n] = "pending" /\ sw'.deletes[n] # "pending") =>
               /\ \A m \in NamespaceNames \ {n} : sw'.deletes[m] = sw.deletes[m]
               /\ sw'.deletes[n] = "failed" => caches' = caches
               /\ sw'.deletes[n] = "deleted" => n \notin CacheNames(caches')
        /\ sw.deletes[n] \in {"failed", "deleted"} =>
               sw'.deletes[n] = sw.deletes[n]

C22_FailedStaysPresent ==
    \A n \in NamespaceNames :
        sw.deletes[n] = "failed" => n \in CacheNames(caches)

C22_OneDeletePerStaleName ==
    /\ [](C22_FailedStaysPresent)
    /\ [][C22_DeletesIssuedTogether /\ C22_DeleteSettlesAlone]_vars

\* the delete of the stale static namespace was rejected, that of the stale
\* image namespace went through
C22_Witness ==
    /\ sw.deletes[STALE_CACHE_NAME] = "failed"
    /\ sw.deletes[STALE_IMAGE_CACHE_NAME] = "deleted"
    /\ STALE_CACHE_NAME \in CacheNames(caches)
    /\ STALE_IMAGE_CACHE_NAME \notin CacheNames(caches)

\* C26: whenever the worker is installed, the entry of '/offline.html' in
\* the static namespace is an ok response.
C26_OfflineEntryIsOk ==
    sw.state = "installed" =>
        Ok(CacheMatch(caches, CACHE_NAME, OFFLINE_URL))

\* C30: when a delete of the sweep is rejected, the activate handler fails
\* and clients.claim() is not called in that activation.
C30_FailedSweepNeverClaims ==
    (\E n \in NamespaceNames : sw.deletes[n] = "failed") =>
        /\ sw.pc = "act_failed"
        /\ sw.claim = "none"

\* a delete was rejected while another is still outstanding: the handler has
\* failed without a claim
C30_Witness ==
    /\ sw.pc = "act_failed"
    /\ sw.claim = "none"
    /\ \E n, m \in NamespaceNames :
           sw.deletes[n] = "failed" /\ sw.deletes[m] = "pending"

\* C25: a handler whose fetch resolved with a response that is not ok has
\* returned exactly that response and issues no put; the response is in no
\* namespace.
C25_NotOkReturnedNotStored ==
    \A h \in Handlers :
        (Started(h) /\ handlers[h].net # Absent /\ ~Ok(handlers[h].net)) =>
            /\ handlers[h].pc = "done"
            /\ handlers[h].resp = handlers[h].net
            /\ handlers[h].put = "none"
            /\ ~Issued(h, "cache.put")
            /\ handlers[h].net \notin StoredUnder(caches, handlers[h].req.url)

\* a navigation and an image request were both answered by the network with
\* a response that is not ok
C25_Witness ==
    \E h, g \in Handlers :
        /\ IsNavigation(h) /\ IsImage(g)
        /\ handlers[h].pc = "done" /\ handlers[g].pc = "done"
        /\ handlers[h].net # Absent /\ ~Ok(handlers[h].net)
        /\ handlers[g].net # Absent /\ ~Ok(handlers[g].net)
        /\ handlers[h].resp = handlers[h].net
        /\ handlers[g].resp = handlers[g].net

\* the same for a request of the last branch
C25_WitnessOther ==
    \E h \in Handlers :
        /\ IsOther(h)
        /\ handlers[h].pc = "done"
        /\ handlers[h].net # Absent /\ ~Ok(handlers[h].net)
        /\ handlers[h].resp = handlers[h].net

\* C28: the image strategy answers from the image namespace only and puts
\* into it only; with no entry there it goes to the network, whatever the
\* static namespace holds, and a failed fetch yields the placeholder.
C28_ImageNamespaceOnly ==
    \A h \in Handlers :
        IsImage(h) =>
            /\ handlers[h].hitIn \in {"", IMAGE_CACHE_NAME}
            /\ handlers[h].putNs \in {"", IMAGE_CACHE_NAME}
            /\ (handlers[h].pc = "done" /\ Issued(h, "fetch")
                    /\ handlers[h].net = Absent) =>
                   handlers[h].resp = PlaceholderResponse

C28_MissGoesToNetwork ==
    \A h \in Handlers :
        (IsImage(h) /\ handlers[h].pc = "img_match" /\ Moves(h)) =>
            /\ caches' = caches
            /\ IF CacheMatch(caches, IMAGE_CACHE_NAME, handlers[h].req.url) = Absent
               THEN /\ handlers'[h].pc = "img_fetch"
                    /\ handlers'[h].resp = Absent
               ELSE /\ handlers'[h].pc = "done"
                    /\ handlers'[h].resp =
                           CacheMatch(caches, IMAGE_CACHE_NAME, handlers[h].req.url)

C28_ImageStrategyScoped ==
    [](C28_ImageNamespaceOnly) /\ [][C28_MissGoesToNetwork]_vars

\* the hero image is in the static namespace, pre-cached at install, and not
\* in the image namespace: the image request for it went to the network and,
\* the fetch failing, got the placeholder
C28_Witness ==
    \E h \in Handlers :
        /\ IsImage(h)
        /\ handlers[h].req.url = HeroURL
        /\ CacheMatch(caches, CACHE_NAME, HeroURL) = Precached(HeroURL, 0)
        /\ CacheMatch(caches, IMAGE_CACHE_NAME, HeroURL) = Absent
        /\ handlers[h].calls = <<"caches.open", "cache.match", "fetch">>
        /\ handlers[h].resp = PlaceholderResponse

\* C23: while the fetch of one handler is pending, every other suspended
\* handler can resume, the next fetch event and the sync and push events
\* can be delivered; and a handler whose own fetch settles returns a
\* response, whether or not the fetches of the others ever settle.
C23_OthersNotBlocked ==
    \A h \in Handlers :
        handlers[h].pc \in AwaitingFetch =>
            /\ \A g \in Handlers \ {h} :
                   /\ handlers[g].pc \in AwaitingCache => ENABLED ResumeFromCache(g)
                   /\ handlers[g].pc \in AwaitingFetch => ENABLED FetchSettles(g)
                   /\ (handlers[g].pc = "idle"
                          /\ \A f \in Handlers : f < g => handlers[f].pc # "idle") =>
                          \A req \in Requests : ENABLED FetchEvent(g, req)
            /\ \A tag \in SyncTags : ENABLED SyncEvent(tag)
            /\ \A hasData \in BOOLEAN : ENABLED PushEvent(hasData)
            /\ sw.notification = "shown" => ENABLED NotificationClick

C23_OwnFetchSuffices ==
    \A g \in Handlers :
        WF_vars(FetchSettles(g)) =>
            ((Started(g) /\ handlers[g].req.url.origin = SiteOrigin)
                ~> (handlers[g].pc = "done" /\ handlers[g].resp # Absent))

C23_StallBlocksOnlyItself ==
    [](C23_OthersNotBlocked) /\ C23_OwnFetchSuffices

\* the fetch of the first handler is still pending; a later request went to
\* the network and has returned, a sync and a push have been handled
C23_Witness ==
    \E h, g \in Handlers :
        /\ h < g
        /\ handlers[h].pc \in AwaitingFetch
        /\ handlers[g].pc = "done"
        /\ Issued(g, "fetch")
        /\ handlers[g].resp # Absent
        /\ sw.synced
        /\ sw.notification = "shown"

\* the namespace at position i is still there after the step, with every
\* entry it had (possibly replaced)
Preserved(i) ==
    \E j \in 1..Len(caches') :
        /\ caches'[j].name = caches[i].name
        /\ \A u \in URLs :
               caches[i].entries[u] # Absent => caches'[j].entries[u] # Absent

\* the caches.delete of the activation's sweep for name n goes through
SweepDeletes(n) == sw.deletes[n] = "pending" /\ sw'.deletes[n] = "deleted"

\* C24: a step of the worker removes no namespace and no entry, except that
\* a delete of the activation's sweep removes the namespace it was called
\* for.
C24_OnlySweepRemoves ==
    \A i \in 1..Len(caches) :
        \/ Preserved(i)
        \/ /\ caches[i].name \in PreviousVersionNames
           /\ SweepDeletes(caches[i].name)

C24_NothingElseDeletes == [][C24_OnlySweepRemoves]_vars

\* after install and activation on a store with a stale namespace, the
\* router replaced the pre-cached copy of a page and a push was handled; the
\* other pre-cached entries are all there
C24_Witness ==
    \E h \in Handlers :
        /\ sw.deletes[STALE_CACHE_NAME] = "deleted"
        /\ sw.notification = "shown"
        /\ handlers[h].put = "done"
        /\ handlers[h].req.url = HeroURL
        /\ CacheMatch(caches, CACHE_NAME, HeroURL) = handlers[h].net
        /\ ManifestStored(caches) = ManifestURLs

\* C27: from a completed install on, the static namespace holds an entry
\* for the offline page and no navigation is answered with the synthesized
\* 503 response.
C27_OfflineEntryStays ==
    /\ sw.state \in {"installed", "activating", "activated"} =>
           CacheMatch(caches, CACHE_NAME, OFFLINE_URL) # Absent
    /\ \A h \in Handlers :
           IsNavigation(h) => handlers[h].resp # OfflineTextResponse

\* after an activation that swept a stale namespace, a navigation whose
\* fetch failed missed the cache and was answered with the offline page of
\* the static namespace
C27_Witness ==
    \E h \in Handlers :
        /\ sw.pc = "act_done"
        /\ sw.deletes[STALE_CACHE_NAME] = "deleted"
        /\ IsNavigation(h)
        /\ handlers[h].net = Absent
        /\ Issued(h, "caches.match(OFFLINE_URL)")
        /\ handlers[h].pc = "done"
        /\ handlers[h].resp = CacheMatch(caches, CACHE_NAME, OFFLINE_URL)

\* C29: the worker creates and writes no namespace but the two current
\* ones; after an activation whose deletes all went through, the names that
\* carry the site prefix are among those two, in every later state.
C29_OnlyCurrentWritten ==
    \A h \in Handlers : handlers[h].putNs \in {"", CACHE_NAME, IMAGE_CACHE_NAME}

C29_OnlyCurrentPrefixed ==
    sw.pc \in {"act_claim", "act_done"} =>
        {n \in CacheNames(caches) : StartsWith(Chars(n), SitePrefix)}
            \subseteq {CACHE_NAME, IMAGE_CACHE_NAME}

C29_OnlyCurrentCreated ==
    CacheNames(caches') \ CacheNames(caches) \subseteq {CACHE_NAME, IMAGE_CACHE_NAME}

C29_OnlyCurrentNamespaces ==
    /\ [](C29_OnlyCurrentWritten /\ C29_OnlyCurrentPrefixed)
    /\ [][C29_OnlyCurrentCreated]_vars

\* the activation found the stale static namespace beside the new one and
\* deleted it; later an image request created and filled the image namespace
C29_Witness ==
    \E h \in Handlers :
        /\ sw.pc = "act_done"
        /\ KeySet(sw.keys) = {STALE_CACHE_NAME, CACHE_NAME}
        /\ CacheNames(caches) = {CACHE_NAME, IMAGE_CACHE_NAME}
        /\ IsImage(h)
        /\ handlers[h].put = "done"
        /\ handlers[h].putNs = IMAGE_CACHE_NAME

(***************************************************************************)
(* The navigation of the page (src/js/main.js): ResponsiveController and   *)
(* MobileMenu, both constructed at DOMContentLoaded, and the events they   *)
(* listen to.                                                              *)
(***************************************************************************)
\* window.innerWidth values: both sides of the breakpoint and next to it
Widths == {320, 375, MOBILE_BREAKPOINT - 1, MOBILE_BREAKPOINT, 1024, 1280}

\* ResponsiveController.getCurrentBreakpoint
GetCurrentBreakpoint(width) ==
    IF width < MOBILE_BREAKPOINT THEN "mobile" ELSE "desktop"

\* ResponsiveController.showMobileMenu
ShowMobileMenu(n) == [n EXCEPT !.btn.hidden = FALSE, !.btn.display = "block"]

\* ResponsiveController.hideMobileMenu
HideMobileMenu(n) == [n EXCEPT !.btn.hidden = TRUE, !.btn.display = "none"]

\* ResponsiveController.showDesktopMenu
ShowDesktopMenu(n) ==
    [n EXCEPT !.desktopMenu.hidden = FALSE, !.desktopMenu.display = "flex"]

\* ResponsiveController.hideDesktopMenu
HideDesktopMenu(n) ==
    [n EXCEPT !.desktopMenu.hidden = TRUE, !.desktopMenu.display = "none"]

\* ResponsiveController.closeMobileMenu
CloseMobileMenu(n) == [n EXCEPT !.menu.hidden = TRUE, !.menu.ariaHidden = "true"]

\* the inline styles both updateNavigation and forceDesktopLayout set
ForceDesktopStyles(n) ==
    [n EXCEPT !.desktopMenu.display = "flex",
              !.desktopMenu.visibility = "visible",
              !.desktopMenu.opacity = "1",
              !.desktopMenu.hidden = FALSE,
              !.btn.display = "none",
              !.btn.visibility = "hidden",
              !.btn.opacity = "0",
              !.btn.mdHidden = TRUE]

\* ResponsiveController.updateNavigation
UpdateNavigation(n) ==
    IF n.currentBreakpoint = "mobile"
    THEN HideDesktopMenu(ShowMobileMenu(n))
    ELSE ForceDesktopStyles(CloseMobileMenu(ShowDesktopMenu(HideMobileMenu(n))))

\* ResponsiveController.forceDesktopLayout, as far as the navigation goes
ForceDesktopLayout(n) ==
    CloseMobileMenu([ForceDesktopStyles(n) EXCEPT !.desktopMenu.mdFlex = TRUE])

\* new ResponsiveController(): constructor and init
ResponsiveControllerInit(n) ==
    LET started == [n EXCEPT !.currentBreakpoint = GetCurrentBreakpoint(n.innerWidth)]
        updated == UpdateNavigation(started)
    IN  IF updated.currentBreakpoint = "desktop"
        THEN ForceDesktopLayout(updated)
        ELSE updated

\* new MobileMenu(): constructor
MobileMenuInit(n) == [n EXCEPT !.isOpen = FALSE]

\* MobileMenu.open
Open(n) ==
    [n EXCEPT !.menu.hidden = FALSE, !.btn.ariaExpanded = "true",
              !.menu.ariaHidden = "false", !.isOpen = TRUE,
              !.btn.icon = "fa-times"]

\* MobileMenu.close
Close(n) ==
    [n EXCEPT !.menu.hidden = TRUE, !.btn.ariaExpanded = "false",
              !.menu.ariaHidden = "true", !.isOpen = FALSE,
              !.btn.icon = "fa-bars"]

\* MobileMenu.toggle
Toggle(n) == IF n.isOpen THEN Close(n) ELSE Open(n)

\* the responsive classes the markup may give the button and the desktop menu
Markups == [btnMdHidden : BOOLEAN, desktopMdFlex : BOOLEAN]

MarkedUp(n, markup) ==
    [n EXCEPT !.btn.mdHidden = markup.btnMdHidden,
              !.desktopMenu.mdFlex = markup.desktopMdFlex]

\* the page after DOMContentLoaded
LoadedNav(raw) == MobileMenuInit(ResponsiveControllerInit(raw))

NavInit ==
    /\ nav \in {LoadedNav(MarkedUp(RawNav(w), mk)) : w \in Widths, mk \in Markups}
    /\ form = RawForm
    /\ caches = << >>
    /\ handlers = [h \in Handlers |-> IdleHandler]
    /\ sw = NewWorker

\* an element the user can click: it is rendered and not visibility: hidden
Clickable(el) == ~el.hidden /\ el.display # "none" /\ el.visibility # "hidden"

\* the window is resized: the debounced listener (re)schedules its callback
Resize(width) ==
    /\ width # nav.innerWidth
    /\ nav' = [nav EXCEPT !.innerWidth = width, !.resizeTimer = TRUE]
    /\ UNCHANGED <<caches, handlers, sw, form>>

\* the debounced resize callback runs
ResizeTimerFired ==
    /\ nav.resizeTimer
    /\ LET newBreakpoint == GetCurrentBreakpoint(nav.innerWidth)
           idle == [nav EXCEPT !.resizeTimer = FALSE] IN
       nav' = IF newBreakpoint # nav.currentBreakpoint
              THEN UpdateNavigation([idle EXCEPT !.currentBreakpoint = newBreakpoint])
              ELSE idle
    /\ UNCHANGED <<caches, handlers, sw, form>>

\* click on #mobile-menu-btn: toggle(); the document's click listener then
\* finds the target inside the button and does nothing
MenuButtonClick ==
    /\ Clickable(nav.btn)
    /\ nav' = Toggle(nav)
    /\ UNCHANGED <<caches, handlers, sw, form>>

\* click on a link of the shown menu: close(); the document's click listener
\* then finds isOpen false
MenuLinkClick ==
    /\ ~nav.menu.hidden
    /\ nav' = Close(nav)
    /\ UNCHANGED <<caches, handlers, sw, form>>

\* keydown on the document
KeyDown(key) ==
    /\ nav' = IF key = "Escape" /\ nav.isOpen THEN Close(nav) ELSE nav
    /\ UNCHANGED <<caches, handlers, sw, form>>

\* click outside the menu and the button
OutsideClick ==
    /\ nav' = IF nav.isOpen THEN Close(nav) ELSE nav
    /\ UNCHANGED <<caches, handlers, sw, form>>

NavNext ==
    \/ \E width \in Widths : Resize(width)
    \/ ResizeTimerFired
    \/ MenuButtonClick
    \/ MenuLinkClick
    \/ \E key \in {"Escape", "Enter"} : KeyDown(key)
    \/ OutsideClick

NavSpec == NavInit /\ [][NavNext]_vars

\* the mobile menu is shown
MenuShown == ~nav.menu.hidden /\ nav.menu.ariaHidden = "false"

\* C31: MobileMenu.isOpen is true exactly when the mobile menu is shown, and
\* exactly when the button's aria-expanded is 'true'.
C31_IsOpenMatchesMenu ==
    /\ nav.isOpen <=> MenuShown
    /\ nav.isOpen <=> nav.btn.ariaExpanded = "true"

\* C32: on the 'mobile' breakpoint the menu button is visible and the
\* desktop menu hidden; on 'desktop' the desktop menu is visible and the
\* button hidden.
C32_NavigationMatchesBreakpoint ==
    /\ nav.currentBreakpoint = "mobile" =>
           /\ nav.btn.display = "block"
           /\ ~nav.btn.hidden
           /\ nav.btn.visibility # "hidden"
           /\ nav.btn.opacity # "0"
           /\ nav.desktopMenu.hidden
           /\ nav.desktopMenu.display = "none"
    /\ nav.currentBreakpoint = "desktop" =>
           /\ nav.desktopMenu.display = "flex"
           /\ ~nav.desktopMenu.hidden
           /\ nav.desktopMenu.visibility # "hidden"
           /\ nav.desktopMenu.opacity # "0"
           /\ nav.btn.hidden
           /\ nav.btn.display = "none"

(***************************************************************************)
(* The contact form of the page (src/js/main.js): ContactForm, its blur    *)
(* and submit listeners and the timers handleSubmit sets.  Every timer has *)
(* the same delay, so the timers fire in the order they were set.          *)
(***************************************************************************)
\* handleSubmit calls that may pass validation
MaxSubmits == 2

\* what a field may hold: nothing, blanks, a word, an address without a
\* dot, an address between blanks, an address with a blank inside
Values ==
    { << >>,
      <<" ">>,
      <<"a">>,
      <<"a", "@", "b">>,
      <<" ", "a", "@", "b", ".", "c", " ">>,
      <<"a", " ", "@", "b", ".", "c">> }

\* \s of the regular expression and of String.prototype.trim
IsSpace(c) == c = " "

RECURSIVE TrimStart(_)
TrimStart(v) ==
    IF v # << >> /\ IsSpace(Head(v)) THEN TrimStart(Tail(v)) ELSE v

RECURSIVE TrimEnd(_)
TrimEnd(v) ==
    IF v # << >> /\ IsSpace(v[Len(v)])
    THEN TrimEnd(SubSeq(v, 1, Len(v) - 1))
    ELSE v

\* String.prototype.trim
Trim(v) == TrimEnd(TrimStart(v))

\* [^\s@]+ matches v[from..to]
LocalPart(v, from, to) ==
    /\ from <= to
    /\ \A i \in from..to : ~IsSpace(v[i]) /\ v[i] # "@"

\* /^[^\s@]+@[^\s@]+\.[^\s@]+$/.test(v)
EmailRegexTest(v) ==
    \E at \in 1..Len(v) : \E dot \in 1..Len(v) :
        /\ v[at] = "@"
        /\ v[dot] = "."
        /\ LocalPart(v, 1, at - 1)
        /\ LocalPart(v, at + 1, dot - 1)
        /\ LocalPart(v, dot + 1, Len(v))

\* field.type
FieldType(f) == IF f = "email" THEN "email" ELSE "text"

\* ContactForm.showError
ShowError(fm, f, message) ==
    [fm EXCEPT !.error[f] = message, !.border[f] = TRUE]

\* ContactForm.clearError
ClearError(fm, f) == [fm EXCEPT !.error[f] = "", !.border[f] = FALSE]

\* the value ContactForm.validateField returns
FieldIsValid(fm, f) ==
    LET value == Trim(fm.value[f]) IN
    /\ ~(f \in fm.required /\ value = << >>)
    /\ ~(FieldType(f) = "email" /\ value # << >> /\ ~EmailRegexTest(value))

\* the form after ContactForm.validateField
ValidateField(fm, f) ==
    LET value == Trim(fm.value[f]) IN
    IF f \in fm.required /\ value = << >>
    THEN ShowError(fm, f, "required")
    ELSE IF FieldType(f) = "email" /\ value # << >> /\ ~EmailRegexTest(value)
         THEN ShowError(fm, f, "email")
         ELSE ClearError(fm, f)

\* the form after validateField ran on every field (handleSubmit's forEach);
\* the fields do not affect each other
ValidateAll(fm) ==
    [fm EXCEPT !.error = [f \in Fields |-> ValidateField(fm, f).error[f]],
               !.border = [f \in Fields |-> ValidateField(fm, f).border[f]]]

\* button labels handleSubmit sets
SendingLabel == "sending"
CompleteLabel == "complete"

\* the timer of simulateSubmit, of a call that read originalText
ResolveTimer(originalText) == [kind |-> "resolve", originalText |-> originalText]

\* the timer handleSubmit sets once simulateSubmit resolved
ResetTimer(originalText) == [kind |-> "reset", originalText |-> originalText]

FormInit ==
    /\ form \in {[RawForm EXCEPT !.required = r] : r \in {{}, {"email"}, Fields}}
    /\ nav = RawNav(MOBILE_BREAKPOINT)
    /\ caches = << >>
    /\ handlers = [h \in Handlers |-> IdleHandler]
    /\ sw = NewWorker

\* the user types into a field
EditField(f, v) ==
    /\ v # form.value[f]
    /\ form' = [form EXCEPT !.value[f] = v]
    /\ UNCHANGED <<caches, handlers, sw, nav>>

\* blur on a field
FieldBlur(f) ==
    /\ form' = ValidateField(form, f)
    /\ UNCHANGED <<caches, handlers, sw, nav>>

\* submit event on the form: handleSubmit up to its await
HandleSubmit ==
    /\ form.started < MaxSubmits
    /\ form' = IF \A f \in Fields : FieldIsValid(form, f)
               THEN [ValidateAll(form) EXCEPT
                        !.label = SendingLabel,
                        !.disabled = TRUE,
                        !.started = @ + 1,
                        !.timers = Append(@, ResolveTimer(form.label))]
               ELSE ValidateAll(form)
    /\ UNCHANGED <<caches, handlers, sw, nav>>

\* the oldest timer fires: simulateSubmit resolves and handleSubmit goes on
\* after its await, or the reset callback runs
TimerFired ==
    /\ form.timers # << >>
    /\ LET timer == Head(form.timers) IN
       form' = IF timer.kind = "resolve"
               THEN [form EXCEPT
                        !.label = CompleteLabel,
                        !.classes = @ \cup {"bg-green-600"},
                        !.timers = Append(Tail(@), ResetTimer(timer.originalText))]
               ELSE [form EXCEPT
                        !.value = [f \in Fields |-> << >>],
                        !.label = timer.originalText,
                        !.disabled = FALSE,
                        !.classes = @ \ {"bg-green-600"},
                        !.timers = Tail(@)]
    /\ UNCHANGED <<caches, handlers, sw, nav>>

FormNext ==
    \/ \E f \in Fields : \E v \in Values : EditField(f, v)
    \/ \E f \in Fields : FieldBlur(f)
    \/ HandleSubmit
    \/ TimerFired

FormSpec == FormInit /\ [][FormNext]_vars

\* a call of handleSubmit is waiting for simulateSubmit
Submitting == \E i \in 1..Len(form.timers) : form.timers[i].kind = "resolve"

\* C33: the submit button is disabled while a submission is in progress,
\* and once every pending timer has fired it is enabled and shows its
\* original label.
C33_ButtonFollowsSubmission ==
    /\ Submitting => form.disabled
    /\ form.timers = << >> => ~form.disabled /\ form.label = OriginalLabel

====
